---- MODULE Spec2Model ----
(***************************************************************************)
(* inline_memset of libc/src/string/memory_utils/memset_implementations.h  *)
(* One call of inline_memset is modelled as the sequence of stores it      *)
(* issues.  The build variant (arch), the CPU capability (hasZva) and the  *)
(* arguments (dst, value, count) are chosen in Init; the action Call runs  *)
(* the whole function and records every store and every helper call.      *)
(***************************************************************************)
EXTENDS Integers, Sequences, FiniteSets, TLC

\* ---- bounds of the model ------------------------------------------------
MaxCount == 450
MaxScalarCount == 40
MaxAlign == 63
SizeBits == 16

SizeMod == 2^SizeBits
Values == {0, 171}
Archs == {"x86", "aarch64", "riscv64", "riscv32", "other"}
VectorArchs == {"x86", "aarch64"}
DstBase == MaxAlign + 1
NullPtr == DstBase - DstBase

VARIABLES arch, hasZva, dst, value, count, pc, st, cl
vars == <<arch, hasZva, dst, value, count, pc, st, cl>>

\* ---- size_t arithmetic ----------------------------------------------------
\* size_t is unsigned: a subtraction below zero wraps modulo 2^SizeBits.
SubSize(a, b) == (a - b) % SizeMod

\* ---- records of what a call does -------------------------------------------
Store(op, p, W, v) == [op |-> op, addr |-> p, width |-> W, val |-> v]
Invoke(fn, W, n, wrapped, exit) ==
  [fn |-> fn, W |-> W, n |-> n, wrapped |-> wrapped, exit |-> exit]
Nothing == [st |-> <<>>, cl |-> <<>>]
Then(r1, r2) == [st |-> r1.st \o r2.st, cl |-> r1.cl \o r2.cl]

\* ---- utils.h ----------------------------------------------------------------
distance_to_align_up(A, p) == (A - (p % A)) % A

align_to_next_boundary(A, p, n) ==
  LET off == A - (p % A)
  IN [p |-> p + off, n |-> SubSize(n, off),
      cl |-> <<Invoke("align", A, n, n < off, off)>>]

\* ---- generic/byte_per_byte.h --------------------------------------------------
RECURSIVE BytePerByteStores(_, _, _, _)
BytePerByteStores(p, v, n, offset) ==
  IF offset < n
  THEN <<Store("byte", p + offset, 1, v)>> \o BytePerByteStores(p, v, n, offset + 1)
  ELSE <<>>

inline_memset_byte_per_byte(p, v, n, offset) ==
  [st |-> BytePerByteStores(p, v, n, offset), cl |-> <<>>]

\* ---- op_generic.h: generic::Memset<T>, SIZE = W bytes ------------------------
\* block writes the SIZE bytes [p, p + SIZE).  Where T is a cpp::array of
\* narrower registers (the AVX, SSE2 and scalar builds of lines 59-70) the
\* same bytes are written by consecutive narrower stores.
Memset_block(W, p, v) == [st |-> <<Store("block", p, W, v)>>, cl |-> <<>>]

Memset_tail(W, p, v, n) ==
  [st |-> <<Store("tail", p + n - W, W, v)>>,
   cl |-> <<Invoke("tail", W, n, n < W, 0)>>]

Memset_head_tail(W, p, v, n) ==
  Then([st |-> <<>>, cl |-> <<Invoke("head_tail", W, n, n < W, 0)>>],
       Then(Memset_block(W, p, v), Memset_tail(W, p, v, n)))

MemsetSequence_block(W1, W2, p, v) ==
  Then(Memset_block(W1, p, v), Memset_block(W2, p + W1, v))

\* do { block(dst + offset); offset += SIZE; } while (offset < count - SIZE);
RECURSIVE LoopStores(_, _, _, _, _, _)
LoopStores(op, W, p, v, bound, offset) ==
  <<Store(op, p + offset, W, v)>> \o
  (IF offset + W < bound THEN LoopStores(op, W, p, v, bound, offset + W) ELSE <<>>)

Memset_loop_and_tail(W, p, v, n) ==
  Then([st |-> LoopStores("loop", W, p, v, SubSize(n, W), 0),
        cl |-> <<Invoke("loop_and_tail", W, n, n < W, 0)>>],
       Memset_tail(W, p, v, n))

\* ---- op_aarch64.h: aarch64::neon::BzeroCacheLine, SIZE = 64 -------------------
BzeroCacheLine_loop_and_tail(p, v, n) ==
  Then([st |-> LoopStores("zva", 64, p, 0, SubSize(n, 64), 0),
        cl |-> <<Invoke("zva_loop_and_tail", 64, n, n < 64, 0)>>],
       Memset_tail(64, p, v, n))

\* ---- memset_implementations.h ---------------------------------------------------
\* for (; offset < count - kAlign; offset += kAlign) store_aligned(dst, offset)
RECURSIVE WordLoopStores(_, _, _, _, _)
WordLoopStores(kAlign, p, v, bound, offset) ==
  IF offset < bound
  THEN <<Store("word", p + offset, kAlign, v)>> \o
       WordLoopStores(kAlign, p, v, bound, offset + kAlign)
  ELSE <<>>

\* faulty variant: the loop stops one word early
WordLoopBound_early(kAlign, n) == SubSize(n, 2 * kAlign)

WordLoopBound(kAlign, n) == SubSize(n, kAlign)

\* faulty variant: the byte-per-byte threshold is kAlign instead of 2 * kAlign
inline_memset_aligned_access_le1(kAlign, p, v, n) ==
  IF n <= kAlign
  THEN inline_memset_byte_per_byte(p, v, n, 0)
  ELSE LET bytes_to_dst_align == distance_to_align_up(kAlign, p)
           words == WordLoopStores(kAlign, p, v, WordLoopBound(kAlign, n), bytes_to_dst_align)
           offset == bytes_to_dst_align + kAlign * Len(words)
       IN Then(inline_memset_byte_per_byte(p, v, bytes_to_dst_align, 0),
          Then([st |-> words,
                cl |-> <<Invoke("word_loop", kAlign, n, n < kAlign, offset)>>],
               inline_memset_byte_per_byte(p, v, n, offset)))

inline_memset_aligned_access(kAlign, p, v, n) ==
  IF n <= 2 * kAlign
  THEN inline_memset_byte_per_byte(p, v, n, 0)
  ELSE LET bytes_to_dst_align == distance_to_align_up(kAlign, p)
           words == WordLoopStores(kAlign, p, v, WordLoopBound(kAlign, n), bytes_to_dst_align)
           offset == bytes_to_dst_align + kAlign * Len(words)
       IN Then(inline_memset_byte_per_byte(p, v, bytes_to_dst_align, 0),
          Then([st |-> words,
                cl |-> <<Invoke("word_loop", kAlign, n, n < kAlign, offset)>>],
               inline_memset_byte_per_byte(p, v, n, offset)))

inline_memset_aligned_access_32bit(p, v, n) == inline_memset_aligned_access(4, p, v, n)

inline_memset_aligned_access_64bit(p, v, n) == inline_memset_aligned_access(8, p, v, n)

\* faulty variant: the pointer is advanced to a 64-byte boundary after a 32-byte head
X86Aligned_64(p, n) == align_to_next_boundary(64, p, n)

X86Aligned(p, n) == align_to_next_boundary(32, p, n)

\* lines 73-80: count in 0..3
X86Tiny(p, v, n) ==
  IF n = 0 THEN Nothing
  ELSE IF n = 1 THEN Memset_block(1, p, v)
  ELSE IF n = 2 THEN Memset_block(2, p, v)
  ELSE MemsetSequence_block(2, 1, p, v)

\* faulty variant: count = 8 falls into the 64-bit tier
X86HeadTail_lt8(p, v, n) ==
  IF n < 8 THEN Memset_head_tail(4, p, v, n)
  ELSE IF n <= 16 THEN Memset_head_tail(8, p, v, n)
  ELSE IF n <= 32 THEN Memset_head_tail(16, p, v, n)
  ELSE IF n <= 64 THEN Memset_head_tail(32, p, v, n)
  ELSE Memset_head_tail(64, p, v, n)

\* faulty variant: count = 17 stays in the 64-bit tier
X86HeadTail_le17(p, v, n) ==
  IF n <= 8 THEN Memset_head_tail(4, p, v, n)
  ELSE IF n <= 17 THEN Memset_head_tail(8, p, v, n)
  ELSE IF n <= 32 THEN Memset_head_tail(16, p, v, n)
  ELSE IF n <= 64 THEN Memset_head_tail(32, p, v, n)
  ELSE Memset_head_tail(64, p, v, n)

\* lines 81-90: count in 4..128
X86HeadTail(p, v, n) ==
  IF n <= 8 THEN Memset_head_tail(4, p, v, n)
  ELSE IF n <= 16 THEN Memset_head_tail(8, p, v, n)
  ELSE IF n <= 32 THEN Memset_head_tail(16, p, v, n)
  ELSE IF n <= 64 THEN Memset_head_tail(32, p, v, n)
  ELSE Memset_head_tail(64, p, v, n)

inline_memset_x86(p, v, n) ==
  IF n <= 3 THEN X86Tiny(p, v, n)
  ELSE IF n <= 128 THEN X86HeadTail(p, v, n)
  ELSE LET a == X86Aligned(p, n)
       IN Then(Memset_block(32, p, v),
          Then([st |-> <<>>, cl |-> a.cl],
               Memset_loop_and_tail(32, a.p, v, a.n)))

\* faulty variant: the value is not tested
UseZva_anyvalue(v, n, zva) == n >= 448 /\ zva

UseZva(v, n, zva) == n >= 448 /\ v = 0 /\ zva

\* faulty variant: the pointer is advanced but count is not reduced
AArch64ZvaAligned_keepcount(p, n) ==
  [align_to_next_boundary(64, p, n) EXCEPT !.n = n]

\* faulty variant: the pointer is aligned to 32 bytes only
AArch64ZvaAligned_32(p, n) == align_to_next_boundary(32, p, n)

AArch64ZvaAligned(p, n) == align_to_next_boundary(64, p, n)

\* faulty variant: the pointer is advanced but count is not reduced
AArch64GenericAligned_keepcount(p, n) ==
  [align_to_next_boundary(16, p, n) EXCEPT !.n = n]

\* faulty variant: the pointer is advanced to a 64-byte boundary after a 16-byte head
AArch64GenericAligned_64(p, n) == align_to_next_boundary(64, p, n)

AArch64GenericAligned(p, n) == align_to_next_boundary(16, p, n)

\* faulty variant: no early return for count = 0
AArch64Tiny_nozero(p, v, n) ==
  Then(Memset_block(1, p, v),
       IF n > 1 THEN Memset_tail(2, p, v, n) ELSE Nothing)

\* lines 105-112: count in 0..3
AArch64Tiny(p, v, n) ==
  IF n = 0 THEN Nothing
  ELSE Then(Memset_block(1, p, v),
            IF n > 1 THEN Memset_tail(2, p, v, n) ELSE Nothing)

\* lines 113-126: count in 4..96
AArch64HeadTail(p, v, n) ==
  IF n <= 8 THEN Memset_head_tail(4, p, v, n)
  ELSE IF n <= 16 THEN Memset_head_tail(8, p, v, n)
  ELSE IF n <= 32 THEN Memset_head_tail(16, p, v, n)
  ELSE Then(Memset_block(32, p, v),
            IF n <= 64
            THEN Memset_tail(32, p, v, n)
            ELSE Then(Memset_block(32, p + 32, v), Memset_tail(32, p, v, n)))

inline_memset_aarch64(p, v, n, zva) ==
  IF n <= 3 THEN AArch64Tiny(p, v, n)
  ELSE IF n <= 32 + 64 THEN AArch64HeadTail(p, v, n)
  ELSE IF UseZva(v, n, zva)
       THEN LET a == AArch64ZvaAligned(p, n)
            IN Then(Memset_block(64, p, 0),
               Then([st |-> <<>>, cl |-> a.cl],
                    BzeroCacheLine_loop_and_tail(a.p, 0, a.n)))
       ELSE LET a == AArch64GenericAligned(p, n)
            IN Then(Memset_block(16, p, v),
               Then([st |-> <<>>, cl |-> a.cl],
                    Memset_loop_and_tail(64, a.p, v, a.n)))

inline_memset(target, p, v, n, zva) ==
  CASE target = "x86" -> inline_memset_x86(p, v, n)
    [] target = "aarch64" -> inline_memset_aarch64(p, v, n, zva)
    [] target = "riscv64" -> inline_memset_aligned_access_64bit(p, v, n)
    [] target = "riscv32" -> inline_memset_aligned_access_32bit(p, v, n)
    [] OTHER -> inline_memset_byte_per_byte(p, v, n, 0)

\* ---- the state machine -------------------------------------------------------
CountsOf(target) ==
  IF target \in VectorArchs THEN 0..MaxCount ELSE 0..MaxScalarCount

Init ==
  /\ arch \in Archs
  /\ hasZva \in (IF arch = "aarch64" THEN BOOLEAN ELSE {FALSE})
  /\ value \in Values
  /\ count \in CountsOf(arch)
  /\ dst \in (DstBase .. DstBase + MaxAlign) \cup (IF count = 0 THEN {NullPtr} ELSE {})
  /\ pc = "call"
  /\ st = <<>>
  /\ cl = <<>>

Call ==
  /\ pc = "call"
  /\ LET r == inline_memset(arch, dst, value, count, hasZva)
     IN /\ st' = r.st
        /\ cl' = r.cl
  /\ pc' = "done"
  /\ UNCHANGED <<arch, hasZva, dst, value, count>>

Next == Call

Spec == Init /\ [][Next]_vars

\* ---- memory as seen after the stores ------------------------------------------
\* dc zva zeroes the whole 64-byte block that contains the address it is given.
Lo(s) == IF s.op = "zva" THEN s.addr - (s.addr % 64) ELSE s.addr
Hi(s) == Lo(s) + s.width
Covers(s, a) == Lo(s) <= a /\ a < Hi(s)

InitMem(a) == (a * 7 + 1) % 256

\* index of the last store of the sequence that writes address a, 0 if none
RECURSIVE LastStoreFrom(_, _, _)
LastStoreFrom(stores, a, i) ==
  IF i = 0 THEN 0
  ELSE IF Covers(stores[i], a) THEN i
  ELSE LastStoreFrom(stores, a, i - 1)

LastStore(stores, a) == LastStoreFrom(stores, a, Len(stores))

MemAfter(stores, a) ==
  LET i == LastStore(stores, a)
  IN IF i = 0 THEN InitMem(a) ELSE stores[i].val

\* ---- properties ----------------------------------------------------------------
Done == pc = "done"
Range == dst .. (dst + count - 1)
StoresOf(op) == {i \in 1..Len(st) : st[i].op = op}
CallsOf(fn) == {i \in 1..Len(cl) : cl[i].fn = fn}
Touched(stores) == UNION {Lo(stores[i]) .. (Hi(stores[i]) - 1) : i \in 1..Len(stores)}

\* C1: on every variant, for every count, value and alignment of dst, every
\* byte of [dst, dst+count) equals value when the call has returned.
C1_AllBytesSet ==
  Done => \A a \in Range : MemAfter(st, a) = value

C1_Witness ==
  /\ Done /\ arch = "aarch64" /\ hasZva /\ value = 0
  /\ count = 449 /\ dst % 64 = 37
  /\ StoresOf("zva") # {}
  /\ \A a \in Range : MemAfter(st, a) = value

\* C2: every store issued during the call writes only addresses inside
\* [dst, dst+count).
C2_StoresInRange ==
  Done => \A i \in 1..Len(st) : dst <= Lo(st[i]) /\ Hi(st[i]) <= dst + count

C2_Witness ==
  /\ Done /\ arch = "x86" /\ count = 129 /\ dst % 32 = 31
  /\ Len(st) >= 3
  /\ st[Len(st)].op = "tail" /\ Hi(st[Len(st)]) = dst + count

\* C3: a call with count = 0 issues no store and leaves memory unchanged, on
\* every variant and for every dst, the null pointer included.
C3_ZeroCountNoStore ==
  (Done /\ count = 0) => (st = <<>> /\ Touched(st) = {})

C3_Witness ==
  Done /\ count = 0 /\ dst = NullPtr /\ arch = "riscv32" /\ st = <<>>

\* C4: on AArch64, for value = 0 and count >= 448, the memory after the call
\* is the same, at every address either path writes and at every address of
\* the range, whether the zero-fill capability is present or absent.
C4_ZvaEquivalence ==
  (Done /\ arch = "aarch64" /\ value = 0 /\ count >= 448) =>
    LET other == inline_memset_aarch64(dst, value, count, ~hasZva).st
    IN \A a \in Touched(st) \cup Touched(other) \cup Range :
         MemAfter(st, a) = MemAfter(other, a)

C4_Witness ==
  /\ Done /\ arch = "aarch64" /\ value = 0 /\ count >= 448 /\ hasZva
  /\ StoresOf("zva") # {}
  /\ StoresOf("loop") = {}
  /\ \E i \in 1..Len(inline_memset_aarch64(dst, value, count, FALSE).st) :
       inline_memset_aarch64(dst, value, count, FALSE).st[i].op = "loop"

\* C5: on x86 the stores issued are those of the tier table, which depends on
\* count alone: 0 none; 1 one byte; 2 one 16-bit; 3 a 16-bit store at dst and
\* a byte at dst+2; 4-128 a head and a tail store of the tier's width; above
\* 128 a 256-bit store at dst, 256-bit loop stores from the next 32-byte
\* boundary on, and a 256-bit tail ending at dst+count.
TierWidth(n) ==
  IF n <= 8 THEN 4 ELSE IF n <= 16 THEN 8 ELSE IF n <= 32 THEN 16
  ELSE IF n <= 64 THEN 32 ELSE 64

Shape(stores) == [i \in 1..Len(stores) |-> <<stores[i].addr - dst, stores[i].width>>]

TierTable(n) ==
  IF n = 0 THEN <<>>
  ELSE IF n = 1 THEN << <<0, 1>> >>
  ELSE IF n = 2 THEN << <<0, 2>> >>
  ELSE IF n = 3 THEN << <<0, 2>>, <<2, 1>> >>
  ELSE << <<0, TierWidth(n)>>, <<n - TierWidth(n), TierWidth(n)>> >>

C5_X86Tiers ==
  (Done /\ arch = "x86") =>
    /\ \A i \in 1..Len(st) : st[i].val = value
    /\ IF count <= 128
       THEN Shape(st) = TierTable(count)
       ELSE LET boundary == dst + 32 - (dst % 32)
                last == Len(st)
            IN /\ last >= 3
               /\ Shape(st)[1] = <<0, 32>>
               /\ \A i \in 2..(last - 1) :
                    /\ st[i].op = "loop"
                    /\ st[i].width = 32
                    /\ st[i].addr = boundary + 32 * (i - 2)
               /\ st[last].op = "tail"
               /\ Shape(st)[last] = <<count - 32, 32>>

C5_Witness ==
  /\ Done /\ arch = "x86" /\ count = 200 /\ dst % 32 = 5
  /\ Len(st) = 7
  /\ st[2].addr = dst + 27

\* C6: on AArch64 a cache-line zeroing block is issued if and only if
\* count >= 448, value = 0 and the capability is present; every other call
\* with count > 96 takes the 128-bit head store, the 16-byte alignment and
\* the 512-bit loop and tail.  No other variant issues a zeroing block.
C6_ZvaGuard ==
  Done =>
    /\ (StoresOf("zva") # {}) <=>
         (arch = "aarch64" /\ count >= 448 /\ value = 0 /\ hasZva)
    /\ (arch = "aarch64" /\ count > 96 /\ ~(count >= 448 /\ value = 0 /\ hasZva)) =>
         /\ st[1] = Store("block", dst, 16, value)
         /\ \E i \in CallsOf("align") : cl[i].W = 16
         /\ CallsOf("loop_and_tail") # {}
         /\ \A i \in CallsOf("loop_and_tail") : cl[i].W = 64
         /\ StoresOf("loop") # {}
         /\ \A i \in StoresOf("loop") : st[i].width = 64
         /\ st[Len(st)] = Store("tail", dst + count - 64, 64, value)

C6_Witness ==
  /\ Done /\ arch = "aarch64" /\ count = 448 /\ value = 171 /\ hasZva
  /\ StoresOf("zva") = {}
  /\ StoresOf("loop") # {}

\* C7 as stated: in the aligned-access strategies, for count > 2*wordSize,
\* when the word loop exits count - offset < wordSize.
C7_TailShorterThanWord ==
  Done => \A i \in CallsOf("word_loop") : cl[i].n - cl[i].exit < cl[i].W

\* C7 amended: in the aligned-access strategies, for count > 2*wordSize, when
\* the word loop exits 1 <= count - offset <= wordSize, so the byte-per-byte
\* tail fill writes at most wordSize bytes.
C7_TailAtMostWord ==
  (Done /\ arch \in {"riscv32", "riscv64"}) =>
    LET W == IF arch = "riscv32" THEN 4 ELSE 8
    IN /\ (count > 2 * W) <=> (CallsOf("word_loop") # {})
       /\ \A i \in CallsOf("word_loop") :
            /\ cl[i].W = W /\ cl[i].n = count
            /\ 1 <= cl[i].n - cl[i].exit
            /\ cl[i].n - cl[i].exit <= W
            /\ Cardinality({j \in StoresOf("byte") : st[j].addr >= dst + cl[i].exit})
                 = cl[i].n - cl[i].exit

C7_Witness ==
  /\ Done /\ arch = "riscv32" /\ count = 12 /\ dst % 4 = 0
  /\ \E i \in CallsOf("word_loop") : cl[i].n - cl[i].exit = 4

\* C8: every store the code treats as aligned is at a multiple of its
\* alignment: word stores at multiples of 4 / 8, x86 loop stores at multiples
\* of 32, AArch64 generic loop stores at multiples of 16, cache-line zeroing
\* blocks at multiples of 64.
C8_AlignedStores ==
  Done =>
    /\ \A i \in StoresOf("word") :
         /\ st[i].width = (IF arch = "riscv32" THEN 4 ELSE 8)
         /\ st[i].addr % st[i].width = 0
    /\ \A i \in StoresOf("loop") :
         st[i].addr % (IF arch = "x86" THEN 32 ELSE 16) = 0
    /\ \A i \in StoresOf("zva") : st[i].addr % 64 = 0

C8_Witness ==
  /\ Done /\ arch = "aarch64" /\ hasZva /\ value = 0 /\ count = 450
  /\ dst % 64 = 1
  /\ Cardinality(StoresOf("zva")) >= 5

\* C9: whenever a dispatcher invokes head_tail or tail with width W and length
\* n, W <= n; for a head+tail pair n <= 2*W (n <= 3*W for the AArch64 65-96
\* case), so no tail store starts before dst.
C9_TailWidths ==
  (Done /\ arch \in VectorArchs) =>
    /\ \A i \in CallsOf("tail") : cl[i].W <= cl[i].n
    /\ \A i \in CallsOf("head_tail") : cl[i].W <= cl[i].n /\ cl[i].n <= 2 * cl[i].W
    /\ (arch = "aarch64" /\ 32 < count /\ count <= 96) =>
         \A i \in CallsOf("tail") :
           cl[i].W = 32 /\ cl[i].n <= (IF count <= 64 THEN 2 ELSE 3) * cl[i].W
    /\ \A i \in StoresOf("tail") : st[i].addr >= dst

C9_Witness ==
  /\ Done /\ arch = "aarch64" /\ count = 96
  /\ \E i \in CallsOf("tail") : cl[i].W = 32 /\ cl[i].n = 96
  /\ Len(st) = 3

\* C10: no unsigned subtraction of a loop bound wraps: count - wordSize is
\* evaluated only with count > 2*wordSize, the count left after the alignment
\* adjustment is at least 32 on the x86 loop path and at least 64 on both
\* AArch64 loop paths, and the number of stores of a call is bounded.
C10_NoWrap ==
  Done =>
    /\ \A i \in 1..Len(cl) : ~cl[i].wrapped
    /\ \A i \in CallsOf("word_loop") : cl[i].n > 2 * cl[i].W
    /\ \A i \in CallsOf("loop_and_tail") :
         cl[i].n >= cl[i].W /\ cl[i].W = (IF arch = "x86" THEN 32 ELSE 64)
    /\ \A i \in CallsOf("zva_loop_and_tail") : cl[i].n >= 64
    /\ \A i \in CallsOf("align") : cl[i].exit <= cl[i].n
    /\ Len(st) <= count

C10_Witness ==
  /\ Done /\ arch = "aarch64" /\ count = 97 /\ dst % 16 = 0
  /\ \E i \in CallsOf("loop_and_tail") : cl[i].n = 81
  /\ \E i \in CallsOf("align") : cl[i].exit = 16

====
